---- MODULE Spec2Model ----
(***************************************************************************)
(* Connection-lifecycle model of BambuImplementation                       *)
(* (dist/printers/bambu.js): the control-channel (MQTT) pool, the          *)
(* pending-attempt records, the capability operations, the shutdown, the   *)
(* credential codec and the start-project payload.                         *)
(*                                                                         *)
(* JavaScript strings are sequences of one-character strings, so that      *)
(* split(':') and the template `${host}-${serial}` are computed, not       *)
(* assumed.  One action is one run-to-completion turn of the event loop:   *)
(* the synchronous part of a call up to its first real suspension, or one  *)
(* transport event together with the continuations (microtasks) of the     *)
(* callers the event's handler resolves or rejects.                        *)
(***************************************************************************)
EXTENDS Integers, Sequences, FiniteSets, TLC

VARIABLES
    clients,                  \* every client mqtt.connect() has created, by creation order
    mqttClients,              \* this.mqttClients: clientKey -> client
    mqttConnectionPromises,   \* this.mqttConnectionPromises: clientKey -> pending attempt
    calls,                    \* the capability calls issued so far
    ftp,                      \* the file-transfer sessions of the printer store
    shutdown,                 \* the run of disconnectAllMqtt
    cred,                     \* credential codec: a token and what the codec made of it
    job,                      \* print_3mf: tool arguments, derived options, built payload
    factory,                  \* PrinterFactory: this.implementations and the objects it constructed
    lookups,                  \* the getImplementation calls made so far, with their outcomes
    proc                      \* the server process and its SIGINT handler

vars == <<clients, mqttClients, mqttConnectionPromises, calls, ftp, shutdown, cred, job, factory, lookups, proc>>

(***************************************************************************)
(* Bounds of the model.                                                    *)
(***************************************************************************)
MaxClients == 2     \* mqtt.connect() calls in one run
MaxCalls == 3       \* capability calls in one run
MaxTokenLen == 4    \* characters of a composite token fed to the codec
MaxSlots == 2       \* entries of a filament-slot mapping
MaxLookups == 2     \* getImplementation calls in one run

(***************************************************************************)
(* Inputs.                                                                 *)
(***************************************************************************)
Hosts == { <<"a">>, <<"a", "-", "b">> }
Serials == { <<"c">>, <<"b", "-", "c">> }
Tokens == { <<"t">> }
Errors == { "ECONNREFUSED" }

\* `${serial}:${token}` for the devices above, and two tokens with the wrong part count
GoodApiKeys == { s \o <<":">> \o t : s \in Serials, t \in Tokens }
BadApiKeys == { <<"c">>, <<"c", ":", "t", ":", "t">> }
ApiKeys == GoodApiKeys \cup BadApiKeys

\* the devices addressed: host "a-b" with serial "c" and host "a" with serial "b-c"
\* differ in both components; host "a" with serial "c" is a third device
Devices == { <<<<"a", "-", "b">>, <<"c">>>>, <<<<"a">>, <<"b", "-", "c">>>>, <<<<"a">>, <<"c">>>> }
Targets == { <<d[1], d[2] \o <<":">> \o t>> : d \in Devices, t \in Tokens }

(***************************************************************************)
(* Credential codec.                                                       *)
(***************************************************************************)
\* String.prototype.split with a one-character separator
RECURSIVE Split(_, _)
Split(s, d) ==
    IF \E i \in 1..Len(s) : s[i] = d
    THEN LET i == CHOOSE n \in 1..Len(s) : s[n] = d /\ \A m \in 1..(n - 1) : s[m] # d
         IN  <<SubSeq(s, 1, i - 1)>> \o Split(SubSeq(s, i + 1, Len(s)), d)
    ELSE <<s>>

\* the test `parts.length !== 2` of extractBambuCredentials, negated
PartsAccepted(parts) == Len(parts) = 2

\* extractBambuCredentials: ok = FALSE stands for the thrown Error
extractBambuCredentials(apiKey) ==
    LET parts == Split(apiKey, ":")
    IN  IF ~PartsAccepted(parts)
        THEN [ok |-> FALSE, serial |-> <<>>, token |-> <<>>]
        ELSE [ok |-> TRUE, serial |-> parts[1], token |-> parts[2]]

(***************************************************************************)
(* Pool helpers.                                                           *)
(***************************************************************************)
\* const clientKey = `${host}-${serial}`
clientKey(host, serial) == host \o <<"-">> \o serial

\* {}
EmptyMap == [k \in {} |-> 0]

\* delete obj[key]
Delete(obj, key) == [k \in (DOMAIN obj) \ {key} |-> obj[k]]

\* obj[key] = value
Put(obj, key, value) == [k \in (DOMAIN obj) \cup {key} |-> IF k = key THEN value ELSE obj[k]]

\* client.connected of mqtt.js: true from CONNACK until the stream closes
connected(c) == clients[c].state = "connected"

KeyOf(c) == clientKey(clients[c].host, clients[c].serial)

Resolved(v) == [kind |-> "resolved", value |-> v]
Rejected(v) == [kind |-> "rejected", value |-> v]
NoResult == [kind |-> "none", value |-> "none"]

NewCall(op, host, apiKey, serial, token) ==
    [op |-> op, host |-> host, apiKey |-> apiKey, serial |-> serial, token |-> token,
     pc |-> "start", promise |-> 0, client |-> 0, uploaded |-> FALSE,
     ack |-> "none", result |-> NoResult]

(***************************************************************************)
(* Continuations of a caller of getMqttClient.                             *)
(***************************************************************************)
\* the code after `await this.getMqttClient(...)` when it yields client c;
\* up is c.connected at that moment
AfterClient(cl, c, up) ==
    IF cl.op = "getStatus"
    THEN [cl EXCEPT !.pc = "done", !.promise = 0, !.client = c,
                    !.result = Resolved(IF up THEN "connected" ELSE "connecting")]
    ELSE \* cancelJob, print3mf: publishMqttCommand calls client.publish at once
         [cl EXCEPT !.pc = "publishing", !.promise = 0, !.client = c]

\* the code after `await this.getMqttClient(...)` when it throws err
AfterReject(cl, err) ==
    IF cl.op = "getStatus"
    THEN [cl EXCEPT !.pc = "done", !.promise = 0, !.result = Resolved("error")]
    ELSE [cl EXCEPT !.pc = "done", !.promise = 0, !.result = Rejected(err)]

\* the callers suspended on the promise of attempt c
Awaiting(c) == { i \in DOMAIN calls : calls[i].pc = "awaitMqtt" /\ calls[i].promise = c }

\* `device/${serial}/report`
reportTopic(serial) == <<"device/">> \o serial \o <<"/report">>

\* subscribed of a client: the topics client.subscribe was called with on the
\* client's current connection
NewClient(host, serial, token, by) ==
    [host |-> host, serial |-> serial, token |-> token, by |-> by,
     state |-> "dialing", ending |-> FALSE, lost |-> FALSE, timedOut |-> FALSE,
     reported |-> FALSE, subscribed |-> <<>>,
     promise |-> "pending", reason |-> "none"]

\* getMqttClient as called by call i, whose record before the call is cl; `by`
\* of a client is the call whose getMqttClient ran mqtt.connect
getMqttClient(i, cl) ==
    LET key == clientKey(cl.host, cl.serial)
        set(rec) == IF i \in DOMAIN calls THEN [calls EXCEPT ![i] = rec]
                    ELSE Append(calls, rec)
    IN  IF key \in DOMAIN mqttClients /\ connected(mqttClients[key])
        THEN /\ calls' = set(AfterClient(cl, mqttClients[key], TRUE))
             /\ UNCHANGED <<clients, mqttClients, mqttConnectionPromises>>
        ELSE IF key \in DOMAIN mqttConnectionPromises
        THEN /\ calls' = set([cl EXCEPT !.pc = "awaitMqtt",
                                        !.promise = mqttConnectionPromises[key]])
             /\ UNCHANGED <<clients, mqttClients, mqttConnectionPromises>>
        ELSE /\ Len(clients) < MaxClients
             /\ clients' = Append(clients, NewClient(cl.host, cl.serial, cl.token, i))
             /\ mqttConnectionPromises' = Put(mqttConnectionPromises, key, Len(clients) + 1)
             /\ calls' = set([cl EXCEPT !.pc = "awaitMqtt", !.promise = Len(clients) + 1])
             /\ UNCHANGED mqttClients

(***************************************************************************)
(* Capability operations on the control channel.                           *)
(***************************************************************************)
\* a call whose token the codec rejects: the async function rejects at once
Invalid(op, host, apiKey) ==
    calls' = Append(calls, [NewCall(op, host, apiKey, <<>>, <<>>) EXCEPT
                               !.pc = "done",
                               !.result = Rejected("Invalid Bambu credentials format")])

\* getStatus with the codec called inside its try block
getStatus_insideTry(host, apiKey) ==
    LET c == extractBambuCredentials(apiKey)
    IN  /\ Len(calls) < MaxCalls
        /\ IF ~c.ok
           THEN /\ calls' = Append(calls, [NewCall("getStatus", host, apiKey, <<>>, <<>>) EXCEPT
                                              !.pc = "done", !.result = Resolved("error")])
                /\ UNCHANGED <<clients, mqttClients, mqttConnectionPromises>>
           ELSE getMqttClient(Len(calls) + 1, NewCall("getStatus", host, apiKey, c.serial, c.token))
        /\ UNCHANGED <<ftp, shutdown, cred, job, factory, lookups, proc>>

getStatus(host, apiKey) ==
    LET c == extractBambuCredentials(apiKey)
    IN  /\ Len(calls) < MaxCalls
        /\ IF ~c.ok
           THEN /\ Invalid("getStatus", host, apiKey)
                /\ UNCHANGED <<clients, mqttClients, mqttConnectionPromises>>
           ELSE getMqttClient(Len(calls) + 1, NewCall("getStatus", host, apiKey, c.serial, c.token))
        /\ UNCHANGED <<ftp, shutdown, cred, job, factory, lookups, proc>>

cancelJob(host, apiKey) ==
    LET c == extractBambuCredentials(apiKey)
    IN  /\ Len(calls) < MaxCalls
        /\ IF ~c.ok
           THEN /\ Invalid("cancelJob", host, apiKey)
                /\ UNCHANGED <<clients, mqttClients, mqttConnectionPromises>>
           ELSE getMqttClient(Len(calls) + 1, NewCall("cancelJob", host, apiKey, c.serial, c.token))
        /\ UNCHANGED <<ftp, shutdown, cred, job, factory, lookups, proc>>

\* an async capability method that throws before any await: the call is
\* rejected in the turn that issues it
Throws(op, host, apiKey, message) ==
    /\ Len(calls) < MaxCalls
    /\ calls' = Append(calls, [NewCall(op, host, apiKey, <<>>, <<>>) EXCEPT
                                  !.pc = "done", !.result = Rejected(message)])
    /\ UNCHANGED <<clients, mqttClients, mqttConnectionPromises, ftp, shutdown, cred, job,
                   factory, lookups, proc>>

\* a setTemperature that parses the composite token first
setTemperature_validating(host, apiKey) ==
    Throws("setTemperature", host, apiKey,
           IF extractBambuCredentials(apiKey).ok
           THEN "Direct temperature setting via MQTT is not supported."
           ELSE "Invalid Bambu credentials format")

setTemperature(host, apiKey) ==
    Throws("setTemperature", host, apiKey, "Direct temperature setting via MQTT is not supported.")

startJob(host, apiKey) ==
    Throws("startJob", host, apiKey,
           "startJob is not implemented for Bambu printers using MQTT commands yet.")

\* a publish callback that reports success whatever the transport said
PublishCallback_optimistic(i, ok) ==
    /\ i \in DOMAIN calls
    /\ calls[i].pc = "publishing"
    /\ ok => connected(calls[i].client)
    /\ calls' = [calls EXCEPT ![i].pc = "done",
                              ![i].ack = IF ok THEN "puback" ELSE "error",
                              ![i].result = Resolved("success")]
    /\ UNCHANGED <<clients, mqttClients, mqttConnectionPromises, ftp, shutdown, cred, job, factory, lookups, proc>>

\* the callback of client.publish(topic, message, {qos: 1}, cb): ack is what
\* the transport tells it, the PUBACK of the message or an error
PublishCallback(i, ok) ==
    /\ i \in DOMAIN calls
    /\ calls[i].pc = "publishing"
    /\ ok => connected(calls[i].client)
    /\ calls' = [calls EXCEPT ![i].pc = "done",
                              ![i].ack = IF ok THEN "puback" ELSE "error",
                              ![i].result = IF ok THEN Resolved("success")
                                            ELSE Rejected("Failed to publish MQTT command")]
    /\ UNCHANGED <<clients, mqttClients, mqttConnectionPromises, ftp, shutdown, cred, job, factory, lookups, proc>>

(***************************************************************************)
(* Events of a client created by getMqttClient.                            *)
(***************************************************************************)
Live(c) == c \in DOMAIN clients /\ clients[c].state # "ended" /\ ~clients[c].ending

\* a 'connect' handler that resolves without registering the client
OnConnect_unregistered(c) ==
    /\ Live(c)
    /\ clients[c].state = "dialing"
    /\ clients' = [clients EXCEPT ![c].state = "connected",
                                  ![c].subscribed = Append(@, reportTopic(clients[c].serial)),
                                  ![c].promise = IF @ = "pending" THEN "resolved" ELSE @]
    /\ mqttConnectionPromises' = Delete(mqttConnectionPromises, KeyOf(c))
    /\ calls' = [i \in DOMAIN calls |->
                    IF clients[c].promise = "pending" /\ i \in Awaiting(c)
                    THEN AfterClient(calls[i], c, TRUE) ELSE calls[i]]
    /\ UNCHANGED <<mqttClients, ftp, shutdown, cred, job, factory, lookups, proc>>

\* a 'connect' handler that registers and resolves without subscribing
OnConnect_unsubscribed(c) ==
    /\ Live(c)
    /\ clients[c].state = "dialing"
    /\ clients' = [clients EXCEPT ![c].state = "connected",
                                  ![c].promise = IF @ = "pending" THEN "resolved" ELSE @]
    /\ mqttClients' = Put(mqttClients, KeyOf(c), c)
    /\ mqttConnectionPromises' = Delete(mqttConnectionPromises, KeyOf(c))
    /\ calls' = [i \in DOMAIN calls |->
                    IF clients[c].promise = "pending" /\ i \in Awaiting(c)
                    THEN AfterClient(calls[i], c, TRUE) ELSE calls[i]]
    /\ UNCHANGED <<ftp, shutdown, cred, job, factory, lookups, proc>>

\* client.on('connect'): CONNACK of the first dial or of a reconnect
OnConnect(c) ==
    /\ Live(c)
    /\ clients[c].state = "dialing"
    /\ clients' = [clients EXCEPT ![c].state = "connected",
                                  ![c].subscribed = Append(@, reportTopic(clients[c].serial)),
                                  ![c].promise = IF @ = "pending" THEN "resolved" ELSE @]
    /\ mqttClients' = Put(mqttClients, KeyOf(c), c)
    /\ mqttConnectionPromises' = Delete(mqttConnectionPromises, KeyOf(c))
    /\ calls' = [i \in DOMAIN calls |->
                    IF clients[c].promise = "pending" /\ i \in Awaiting(c)
                    THEN AfterClient(calls[i], c, TRUE) ELSE calls[i]]
    /\ UNCHANGED <<ftp, shutdown, cred, job, factory, lookups, proc>>

\* client.on('error')
OnError(c, err) ==
    /\ Live(c)
    /\ clients' = [clients EXCEPT ![c].promise = IF @ = "pending" THEN "rejected" ELSE @,
                                  ![c].reason = IF clients[c].promise = "pending" THEN err ELSE @,
                                  ![c].lost = @ \/ clients[c].state = "connected"]
    /\ mqttClients' = Delete(mqttClients, KeyOf(c))
    /\ mqttConnectionPromises' = Delete(mqttConnectionPromises, KeyOf(c))
    /\ calls' = [i \in DOMAIN calls |->
                    IF clients[c].promise = "pending" /\ i \in Awaiting(c)
                    THEN AfterReject(calls[i], err) ELSE calls[i]]
    /\ UNCHANGED <<ftp, shutdown, cred, job, factory, lookups, proc>>

\* client.on('close'): the stream closed, and the subscriptions of the
\* connection with it; reconnectPeriod makes the client dial again
OnClose(c) ==
    /\ Live(c)
    /\ clients' = [clients EXCEPT ![c].state = "dialing",
                                  ![c].subscribed = <<>>,
                                  ![c].lost = @ \/ clients[c].state = "connected"]
    /\ mqttClients' = Delete(mqttClients, KeyOf(c))
    /\ UNCHANGED <<mqttConnectionPromises, calls, ftp, shutdown, cred, job, factory, lookups, proc>>

\* client.on('message'): a report of the printer arrives on device/<serial>/report;
\* the handler parses it and keeps nothing.  reported marks a client that has
\* received one.
OnMessage(c) ==
    /\ Live(c)
    /\ connected(c)
    /\ ~clients[c].reported
    /\ clients' = [clients EXCEPT ![c].reported = TRUE]
    /\ UNCHANGED <<mqttClients, mqttConnectionPromises, calls, ftp, shutdown, cred, job,
                   factory, lookups, proc>>

\* connectTimeout (10 s) elapses on a dial that got no CONNACK: mqtt.js closes
\* the stream, so the 'close' handler runs, and the client dials again after
\* reconnectPeriod; whether an 'error' event precedes the close depends on the
\* version of mqtt.js, which the package does not pin.  timedOut marks a client
\* whose first timeout has elapsed.
ConnectTimeout(c, reported) ==
    /\ Live(c)
    /\ clients[c].state = "dialing"
    /\ ~clients[c].timedOut
    /\ clients' = [clients EXCEPT
                      ![c].timedOut = TRUE,
                      ![c].promise = IF reported /\ @ = "pending" THEN "rejected" ELSE @,
                      ![c].reason = IF reported /\ clients[c].promise = "pending"
                                    THEN "connack timeout" ELSE @]
    /\ mqttClients' = Delete(mqttClients, KeyOf(c))
    /\ mqttConnectionPromises' =
          IF reported THEN Delete(mqttConnectionPromises, KeyOf(c)) ELSE mqttConnectionPromises
    /\ calls' = [i \in DOMAIN calls |->
                    IF reported /\ clients[c].promise = "pending" /\ i \in Awaiting(c)
                    THEN AfterReject(calls[i], "connack timeout") ELSE calls[i]]
    /\ UNCHANGED <<ftp, shutdown, cred, job, factory, lookups, proc>>

(***************************************************************************)
(* Shutdown.                                                               *)
(***************************************************************************)
\* disconnectAllMqtt from a loop head to its next suspension: `keys` are the
\* keys for-in has not visited yet (for-in skips a key deleted meanwhile and
\* does not visit a key added meanwhile; the order among the keys is left
\* open), base and pool are clients and mqttClients at the loop head
ShutdownLoop(base, pool, keys) ==
    LET present == keys \cap DOMAIN pool
    IN  IF present = {}
        THEN /\ clients' = base
             /\ mqttClients' = EmptyMap
             /\ mqttConnectionPromises' = EmptyMap
             /\ shutdown' = [pc |-> "done", keys |-> {}, client |-> 0]
        ELSE \E k \in present :
                /\ clients' = [base EXCEPT ![pool[k]].ending = TRUE]
                /\ mqttClients' = pool
                /\ UNCHANGED mqttConnectionPromises
                /\ shutdown' = [pc |-> "ending", keys |-> present \ {k}, client |-> pool[k]]

disconnectAllMqtt ==
    /\ shutdown.pc = "idle"
    /\ ShutdownLoop(clients, mqttClients, DOMAIN mqttClients)
    /\ UNCHANGED <<calls, ftp, cred, job, factory, lookups, proc>>

\* the callback of client.end(false, {}, cb): the stream is closed (the client's
\* 'close' handler has run) and cb gets an error or none
EndCallback(ok) ==
    /\ shutdown.pc = "ending"
    /\ LET c == shutdown.client
           base == [clients EXCEPT ![c].state = "ended", ![c].ending = FALSE,
                                   ![c].subscribed = <<>>]
           pool == Delete(mqttClients, KeyOf(c))
       IN  IF ok
           THEN ShutdownLoop(base, pool, shutdown.keys)
           ELSE /\ clients' = base
                /\ mqttClients' = pool
                /\ UNCHANGED mqttConnectionPromises
                /\ shutdown' = [pc |-> "failed", keys |-> {}, client |-> 0]
    /\ UNCHANGED <<calls, ftp, cred, job, factory, lookups, proc>>

(***************************************************************************)
(* File-transfer operations.                                               *)
(***************************************************************************)
\* this.bambuPrinterStore.get(host, serial, token): the session of the device
getBambuPrinterForFTP(host, serial, token) == <<host, serial>>

\* `if (!printerFTP.isConnected) await printerFTP.connect()`, then the call of
\* printerFTP.manipulateFiles, for call i whose record before is cl
FtpEnter(i, cl) ==
    LET dev == getBambuPrinterForFTP(cl.host, cl.serial, cl.token)
        set(rec) == IF i \in DOMAIN calls THEN [calls EXCEPT ![i] = rec]
                    ELSE Append(calls, rec)
    IN  IF ~ftp[dev].isConnected
        THEN /\ calls' = set([cl EXCEPT !.pc = "ftpConnect"])
             /\ ftp' = [ftp EXCEPT ![dev].connects = @ + 1]
        ELSE /\ calls' = set([cl EXCEPT !.pc = "ftpTransfer"])
             /\ UNCHANGED ftp

\* getFiles, getFile and uploadFile up to their first suspension
FtpOperation(op, host, apiKey) ==
    LET c == extractBambuCredentials(apiKey)
    IN  /\ Len(calls) < MaxCalls
        /\ IF ~c.ok
           THEN /\ Invalid(op, host, apiKey)
                /\ UNCHANGED ftp
           ELSE FtpEnter(Len(calls) + 1, NewCall(op, host, apiKey, c.serial, c.token))
        /\ UNCHANGED <<clients, mqttClients, mqttConnectionPromises, shutdown, cred, job, factory, lookups, proc>>

getFiles(host, apiKey) == FtpOperation("getFiles", host, apiKey)

getFile(host, apiKey) == FtpOperation("getFile", host, apiKey)

uploadFile(host, apiKey) == FtpOperation("uploadFile", host, apiKey)

\* print3mf up to its first suspension
print3mf(host, serial, token) ==
    /\ Len(calls) < MaxCalls
    /\ FtpEnter(Len(calls) + 1, NewCall("print3mf", host, <<>>, serial, token))
    /\ UNCHANGED <<clients, mqttClients, mqttConnectionPromises, shutdown, cred, job, factory, lookups, proc>>

\* printerFTP.connect() settles
FtpConnectCallback(i, ok) ==
    /\ i \in DOMAIN calls
    /\ calls[i].pc = "ftpConnect"
    /\ LET dev == getBambuPrinterForFTP(calls[i].host, calls[i].serial, calls[i].token)
       IN  IF ok
           THEN /\ ftp' = [ftp EXCEPT ![dev].isConnected = TRUE]
                /\ calls' = [calls EXCEPT ![i].pc = "ftpTransfer"]
           ELSE /\ UNCHANGED ftp
                /\ calls' = [calls EXCEPT ![i].pc = "done",
                                          ![i].result = Rejected("FTP connect failed")]
    /\ UNCHANGED <<clients, mqttClients, mqttConnectionPromises, shutdown, cred, job, factory, lookups, proc>>

\* print3mf whose catch block logs the upload error and goes on
print3mfAfterUpload_swallowed(i, ok) == getMqttClient(i, [calls[i] EXCEPT !.uploaded = ok])

\* print3mf after manipulateFiles(sendFile) settled: the catch block rethrows,
\* otherwise step 3, getMqttClient, follows
print3mfAfterUpload(i, ok) ==
    IF ok
    THEN getMqttClient(i, [calls[i] EXCEPT !.uploaded = TRUE])
    ELSE /\ calls' = [calls EXCEPT ![i].pc = "done",
                                   ![i].result = Rejected("Failed to upload 3MF file via FTP")]
         /\ UNCHANGED <<clients, mqttClients, mqttConnectionPromises>>

\* printerFTP.manipulateFiles settles; found: the listing holds the file getFile asks for
FtpTransferCallback(i, ok, found) ==
    /\ i \in DOMAIN calls
    /\ calls[i].pc = "ftpTransfer"
    /\ IF calls[i].op = "print3mf"
       THEN print3mfAfterUpload(i, ok)
       ELSE /\ calls' = [calls EXCEPT
                  ![i].pc = "done",
                  ![i].uploaded = ok /\ calls[i].op = "uploadFile",
                  ![i].result =
                      IF ~ok
                      THEN Rejected(IF calls[i].op = "uploadFile"
                                    THEN "Failed to upload file via FTP"
                                    ELSE "FTP transfer failed")
                      ELSE IF calls[i].op = "getFile" /\ ~found
                      THEN Rejected("File not found")
                      ELSE Resolved("success")]
            /\ UNCHANGED <<clients, mqttClients, mqttConnectionPromises>>
    /\ UNCHANGED <<ftp, shutdown, cred, job, factory, lookups, proc>>

(***************************************************************************)
(* JavaScript values of the print_3mf arguments and of the payload.        *)
(***************************************************************************)
Undefined == [t |-> "undefined", v |-> FALSE]
Null == [t |-> "null", v |-> FALSE]
Bool(b) == [t |-> "boolean", v |-> b]
Num(n) == [t |-> "number", v |-> n]
Str(x) == [t |-> "string", v |-> x]
Arr(x) == [t |-> "array", v |-> x]
\* an object, by Object.values of it
Obj(x) == [t |-> "object", v |-> x]

\* ToBoolean
Truthy(x) ==
    CASE x.t = "undefined" -> FALSE
      [] x.t = "null" -> FALSE
      [] x.t = "boolean" -> x.v
      [] x.t = "number" -> x.v # 0
      [] x.t = "string" -> x.v # ""
      [] OTHER -> TRUE

\* x.length, where x has one
HasLength(x) == x.t = "array"
Length(x) == Len(x.v)

\* `!x || x.length === 0`
NoMapping(x) == ~Truthy(x) \/ (HasLength(x) /\ Length(x) = 0)

\* `.filter(v => typeof v === 'number')`
IsNumber(e) == e.t = "number"
Numbers(s) == SelectSeq(s, IsNumber)

\* `.sort((a, b) => a - b)` on numbers
RECURSIVE Insert(_, _)
Insert(s, e) ==
    IF s = <<>> THEN <<e>>
    ELSE IF e.v < Head(s).v THEN <<e>> \o s
    ELSE <<Head(s)>> \o Insert(Tail(s), e)

RECURSIVE Sort(_)
Sort(s) == IF s = <<>> THEN <<>> ELSE Insert(Sort(SubSeq(s, 1, Len(s) - 1)), s[Len(s)])

(***************************************************************************)
(* The print_3mf tool handler: from the arguments to the print options.    *)
(***************************************************************************)
\* the default mapping taken from parsed3MFData.slicerConfig.ams_mapping
parsedAmsMapping(parsed) ==
    IF Truthy(parsed) /\ Len(Numbers(parsed.v)) > 0
    THEN Arr(Sort(Numbers(parsed.v)))
    ELSE Undefined

\* userMappingOverride of args.ams_mapping
userMappingOverride(ams_mapping) ==
    IF ams_mapping.t = "array" THEN Arr(Numbers(ams_mapping.v))
    ELSE IF ams_mapping.t = "object" THEN Arr(Sort(Numbers(ams_mapping.v)))
    ELSE Undefined

\* `if (args?.ams_mapping) { ... }`
ApplyOverride(ams_mapping, opt) ==
    LET o == userMappingOverride(ams_mapping)
    IN  IF Truthy(ams_mapping) /\ Truthy(o) /\ Length(o) > 0
        THEN [opt EXCEPT !.amsMapping = o, !.useAMS = TRUE]
        ELSE opt

\* `if (args?.use_ams === false) { finalAmsMapping = undefined; useAMS = false; }`
ExplicitDisable(use_ams, opt) ==
    IF use_ams = Bool(FALSE)
    THEN [opt EXCEPT !.amsMapping = Undefined, !.useAMS = FALSE]
    ELSE opt

\* `if (!finalAmsMapping || finalAmsMapping.length === 0) useAMS = false`
NoMappingNoAms(opt) == IF NoMapping(opt.amsMapping) THEN [opt EXCEPT !.useAMS = FALSE] ELSE opt

\* the options argument of print3mf (BambuPrintOptionsInternal) with the given
\* multi-material fields and checksum
print3mfOptions(useAMS, amsMapping, md5) ==
    [projectName |-> Str("model"), filePath |-> Str("model.3mf"), plateIndex |-> Num(0),
     useAMS |-> useAMS, amsMapping |-> amsMapping,
     bedLeveling |-> Undefined, flowCalibration |-> Undefined,
     vibrationCalibration |-> Undefined, layerInspect |-> Undefined,
     timelapse |-> Undefined, md5 |-> md5]

\* useAMS and finalAmsMapping of the handler, as the options passed to print3mf
printOptions(use_ams, ams_mapping, parsed) ==
    LET start == [amsMapping |-> parsedAmsMapping(parsed),
                  useAMS |-> IF use_ams.t # "undefined" THEN Truthy(use_ams)
                             ELSE ~NoMapping(parsedAmsMapping(parsed))]
        final == NoMappingNoAms(ExplicitDisable(use_ams, ApplyOverride(ams_mapping, start)))
    IN  print3mfOptions(Bool(final.useAMS), final.amsMapping, Undefined)

(***************************************************************************)
(* print3mf: the start-project payload and its publication.                *)
(***************************************************************************)
\* a ?? b
Nullish(a, b) == IF a.t \in {"undefined", "null"} THEN b ELSE a

\* a payload whose use_ams is the flag alone
payloadLiteral_flagOnly(options) ==
    [sequence_id |-> Str("now"),
     command |-> Str("project_file"),
     param |-> Str("gcodes/model.3mf"),
     project_name |-> options.projectName,
     use_ams |-> Nullish(options.useAMS, Bool(FALSE)),
     plate_idx |-> Nullish(options.plateIndex, Num(0)),
     bed_levelling |-> Nullish(options.bedLeveling, Bool(TRUE)),
     flow_cali |-> Nullish(options.flowCalibration, Bool(FALSE)),
     vibration_cali |-> Nullish(options.vibrationCalibration, Bool(FALSE)),
     layer_inspect |-> Nullish(options.layerInspect, Bool(FALSE)),
     timelapse |-> Nullish(options.timelapse, Bool(FALSE)),
     ams_mapping |-> options.amsMapping,
     md5 |-> options.md5]

\* the object literal commandPayload
payloadLiteral(options) ==
    [sequence_id |-> Str("now"),
     command |-> Str("project_file"),
     param |-> Str("gcodes/model.3mf"),
     project_name |-> options.projectName,
     use_ams |-> IF Truthy(options.amsMapping) /\ HasLength(options.amsMapping)
                    /\ Length(options.amsMapping) > 0
                 THEN Bool(TRUE) ELSE Nullish(options.useAMS, Bool(FALSE)),
     plate_idx |-> Nullish(options.plateIndex, Num(0)),
     bed_levelling |-> Nullish(options.bedLeveling, Bool(TRUE)),
     flow_cali |-> Nullish(options.flowCalibration, Bool(FALSE)),
     vibration_cali |-> Nullish(options.vibrationCalibration, Bool(FALSE)),
     layer_inspect |-> Nullish(options.layerInspect, Bool(FALSE)),
     timelapse |-> Nullish(options.timelapse, Bool(FALSE)),
     ams_mapping |-> options.amsMapping,
     md5 |-> options.md5]

\* the guard below with the flag set the wrong way
removeEmptyMapping_enables(p) ==
    IF NoMapping(p.ams_mapping)
    THEN [Delete(p, "ams_mapping") EXCEPT !.use_ams = Bool(TRUE)]
    ELSE p

\* `if (!commandPayload.ams_mapping || ...length === 0) { delete ...; use_ams = false }`
removeEmptyMapping(p) ==
    IF NoMapping(p.ams_mapping)
    THEN [Delete(p, "ams_mapping") EXCEPT !.use_ams = Bool(FALSE)]
    ELSE p

\* a guard that removes an absent md5 only
removeEmptyMd5_absentOnly(p) == IF p.md5.t = "undefined" THEN Delete(p, "md5") ELSE p

\* `if (!commandPayload.md5) delete commandPayload.md5`
removeEmptyMd5(p) == IF ~Truthy(p.md5) THEN Delete(p, "md5") ELSE p

commandPayload(options) == removeEmptyMd5(removeEmptyMapping(payloadLiteral(options)))

\* JSON.stringify of an object: a property whose value is undefined is left out
Stringify(obj) == [k \in { x \in DOMAIN obj : obj[x].t # "undefined" } |-> obj[k]]

\* a publish to the report topic
publishMqttCommand_reportTopic(serial, commandType, payload) ==
    [topic |-> <<"device/">> \o serial \o <<"/report">>,
     key |-> commandType,
     body |-> Stringify(payload)]

\* what publishMqttCommand hands to client.publish: the topic, and the message
\* JSON.stringify({ [commandType]: payload }), an object whose one key is
\* commandType and whose value is the payload
publishMqttCommand(serial, commandType, payload) ==
    [topic |-> <<"device/">> \o serial \o <<"/request">>,
     key |-> commandType,
     body |-> Stringify(payload)]

\* the keys of the message object
TopLevelKeys(message) == {message.key}

\* the payload of cancelJob
cancelPayload == [sequence_id |-> Str("now"), command |-> Str("stop_print")]

\* what call i hands to publishMqttCommand when it publishes: cancelJob its
\* payload, print3mf the payload of options without multi-material fields
Message(i) ==
    publishMqttCommand(calls[i].serial, "print",
                       IF calls[i].op = "cancelJob" THEN cancelPayload
                       ELSE commandPayload(print3mfOptions(Undefined, Undefined, Undefined)))

\* call i has called client.publish
HasPublished(i) == calls[i].pc = "publishing" \/ calls[i].ack # "none"

(***************************************************************************)
(* The backend: every operation, every event.                              *)
(***************************************************************************)
NoCred == [token |-> <<>>, done |-> FALSE, out |-> extractBambuCredentials(<<>>)]
NoJob == [pc |-> "none"]

\* the type names and classes of the set() calls of the PrinterFactory constructor
Registered ==
    << << <<"o", "c", "t", "o", "p", "r", "i", "n", "t">>, "OctoPrintImplementation" >>,
       << <<"k", "l", "i", "p", "p", "e", "r">>, "KlipperImplementation" >>,
       << <<"d", "u", "e", "t">>, "DuetImplementation" >>,
       << <<"r", "e", "p", "e", "t", "i", "e", "r">>, "RepetierImplementation" >>,
       << <<"b", "a", "m", "b", "u">>, "BambuImplementation" >>,
       << <<"p", "r", "u", "s", "a">>, "PrusaImplementation" >>,
       << <<"c", "r", "e", "a", "l", "i", "t", "y">>, "CrealityImplementation" >> >>

\* String.prototype.toLowerCase, on the letters the type identifiers below use
toLowerChar(c) ==
    CASE c = "A" -> "a"
      [] c = "B" -> "b"
      [] c = "M" -> "m"
      [] c = "U" -> "u"
      [] c = "D" -> "d"
      [] c = "E" -> "e"
      [] c = "T" -> "t"
      [] OTHER -> c

\* a lookup that takes the identifier as it is
toLowerCase_asIs(s) == s

toLowerCase(s) == [i \in 1..Len(s) |-> toLowerChar(s[i])]

\* a lookup that falls back to the first registered object
MapGet_fallback(m, k) == IF k \in DOMAIN m THEN m[k] ELSE 1

\* Map.prototype.get: 0 stands for undefined
MapGet(m, k) == IF k \in DOMAIN m THEN m[k] ELSE 0

\* the methods an object of the class has: those of the class body of
\* BambuImplementation; PrinterImplementation declares abstract methods only
Methods(class) ==
    IF class = "BambuImplementation"
    THEN { "getBambuPrinterForFTP", "getMqttClient", "disconnectAllMqtt", "getStatus",
           "print3mf", "cancelJob", "setTemperature", "getFiles", "getFile", "uploadFile",
           "startJob", "publishMqttCommand", "extractBambuCredentials" }
    ELSE { "getStatus", "getFiles", "getFile", "uploadFile", "startJob", "cancelJob",
           "setTemperature" }

Returned(o) == [kind |-> "returned", value |-> o]
Thrown(e) == [kind |-> "thrown", value |-> e]

\* PrinterFactory.getImplementation(type)
getImplementation(type) ==
    /\ proc.state = "running"
    /\ Len(lookups) < MaxLookups
    /\ LET implementation == MapGet(factory.implementations, toLowerCase(type))
       IN  lookups' = Append(lookups,
                [type |-> type,
                 result |-> IF implementation = 0
                            THEN Thrown("Unsupported printer type")
                            ELSE Returned(implementation)])
    /\ UNCHANGED <<clients, mqttClients, mqttConnectionPromises, calls, ftp, shutdown, cred,
                   job, factory, proc>>

\* new PrinterFactory(): one object per registered type, in the order of the
\* set() calls; an object is known by its index in factory.objects
PrinterFactory ==
    [implementations |-> [n \in { Registered[i][1] : i \in DOMAIN Registered } |->
                             CHOOSE i \in DOMAIN Registered : Registered[i][1] = n],
     objects |-> [i \in DOMAIN Registered |-> [class |-> Registered[i][2]]]]

\* the process after the server was constructed; unhandledRejections is the
\* mode of the runtime
Running(mode) == [state |-> "running", code |-> 0, sigint |-> "none", unhandledRejections |-> mode]

InitServer ==
    /\ factory = PrinterFactory
    /\ lookups = <<>>
    /\ proc = Running("throw")

InitBackend ==
    /\ clients = <<>>
    /\ mqttClients = EmptyMap
    /\ mqttConnectionPromises = EmptyMap
    /\ calls = <<>>
    /\ ftp = [d \in Hosts \X Serials |-> [isConnected |-> FALSE, connects |-> 0]]
    /\ shutdown = [pc |-> "idle", keys |-> {}, client |-> 0]

Init ==
    /\ InitBackend
    /\ InitServer
    /\ cred = NoCred
    /\ job = NoJob

Events ==
    \/ \E c \in 1..MaxClients : OnConnect(c)
    \/ \E c \in 1..MaxClients, err \in Errors : OnError(c, err)
    \/ \E c \in 1..MaxClients : OnClose(c)
    \/ \E i \in 1..MaxCalls, ok \in BOOLEAN : PublishCallback(i, ok)

Next ==
    \/ \E t \in Targets : getStatus(t[1], t[2])
    \/ \E t \in Targets : cancelJob(t[1], t[2])
    \/ Events
    \/ disconnectAllMqtt
    \/ \E ok \in BOOLEAN : EndCallback(ok)

Spec == Init /\ [][Next]_vars

(***************************************************************************)
(* print3mf and the file-transfer session, with the control channel.       *)
(***************************************************************************)
NextPrint ==
    \/ \E d \in Devices, t \in Tokens : print3mf(d[1], d[2], t)
    \/ \E i \in 1..MaxCalls, ok \in BOOLEAN : FtpConnectCallback(i, ok)
    \/ \E i \in 1..MaxCalls, ok \in BOOLEAN : FtpTransferCallback(i, ok, TRUE)
    \/ Events

SpecPrint == Init /\ [][NextPrint]_vars

(***************************************************************************)
(* The operations that take the composite token, with tokens of every      *)
(* part count.                                                             *)
(***************************************************************************)
TokenHost == <<"a">>

NextToken ==
    \/ \E apiKey \in ApiKeys : getStatus(TokenHost, apiKey)
    \/ \E apiKey \in ApiKeys : cancelJob(TokenHost, apiKey)
    \/ \E apiKey \in ApiKeys : getFiles(TokenHost, apiKey)
    \/ \E apiKey \in ApiKeys : getFile(TokenHost, apiKey)
    \/ \E apiKey \in ApiKeys : uploadFile(TokenHost, apiKey)
    \/ \E i \in 1..MaxCalls, ok \in BOOLEAN : FtpConnectCallback(i, ok)
    \/ \E i \in 1..MaxCalls, ok, found \in BOOLEAN : FtpTransferCallback(i, ok, found)
    \/ Events

SpecToken == Init /\ [][NextToken]_vars

(***************************************************************************)
(* The credential codec on every token up to MaxTokenLen characters.       *)
(***************************************************************************)
TokenChars == { "a", "b", ":" }
TokenStrings == UNION { [1..n -> TokenChars] : n \in 0..MaxTokenLen }

InitCred ==
    /\ InitBackend
    /\ InitServer
    /\ cred \in { [token |-> t, done |-> FALSE, out |-> extractBambuCredentials(<<>>)] :
                     t \in TokenStrings }
    /\ job = NoJob

ExtractCredentials ==
    /\ ~cred.done
    /\ cred' = [cred EXCEPT !.done = TRUE, !.out = extractBambuCredentials(cred.token)]
    /\ UNCHANGED <<clients, mqttClients, mqttConnectionPromises, calls, ftp, shutdown, job, factory, lookups, proc>>

NextCred == ExtractCredentials

SpecCred == InitCred /\ [][NextCred]_vars

(***************************************************************************)
(* Print-from-archive on every combination of its multi-material inputs:   *)
(* print3mf called with options of its declared type, and the print_3mf    *)
(* tool, whose handler derives the options from its arguments.             *)
(***************************************************************************)
SlotValues == { Num(0), Num(1), Str("x") }
SlotLists == UNION { [1..n -> SlotValues] : n \in 0..MaxSlots }

\* args.use_ams, args.ams_mapping and the ams_mapping of the archive's slicer config
UseAmsArgs == { Undefined, Bool(TRUE), Bool(FALSE) }
MappingArgs == {Undefined, Str("0,1")} \cup { Arr(l) : l \in SlotLists } \cup { Obj(l) : l \in SlotLists }
ParsedMappings == {Undefined} \cup { Obj(l) : l \in SlotLists }

\* options.useAMS (boolean or absent), options.amsMapping (number[], absent or
\* null) and options.md5 (string, absent or null)
UseAmsOptions == { Undefined, Bool(TRUE), Bool(FALSE) }
MappingOptions == {Undefined, Null} \cup { Arr(l) : l \in { x \in SlotLists : Numbers(x) = x } }
Md5Options == { Undefined, Null, Str(""), Str("d41d8cd9") }

\* job.entry tells which of the two was invoked; use_ams, ams_mapping and md5
\* are the flag, the mapping and the checksum it was invoked with
InitJob ==
    /\ InitBackend
    /\ InitServer
    /\ cred = NoCred
    /\ \/ job \in { [pc |-> "args", entry |-> "print_3mf", use_ams |-> u, ams_mapping |-> m,
                      parsed |-> q, md5 |-> Undefined, serial |-> <<"c">>,
                      options |-> <<>>, message |-> <<>>] :
                       u \in UseAmsArgs, m \in MappingArgs, q \in ParsedMappings }
       \/ job \in { [pc |-> "options", entry |-> "print3mf", use_ams |-> u, ams_mapping |-> m,
                      parsed |-> Undefined, md5 |-> h, serial |-> <<"c">>,
                      options |-> print3mfOptions(u, m, h), message |-> <<>>] :
                       u \in UseAmsOptions, m \in MappingOptions, h \in Md5Options }

\* the handler of the print_3mf tool up to its call of print3mf
print_3mf ==
    /\ job.pc = "args"
    /\ job' = [job EXCEPT !.pc = "options",
                          !.options = printOptions(job.use_ams, job.ams_mapping, job.parsed)]
    /\ UNCHANGED <<clients, mqttClients, mqttConnectionPromises, calls, ftp, shutdown, cred, factory, lookups, proc>>

\* steps 4 and 5 of print3mf: build the payload and publish it
print3mfPublish ==
    /\ job.pc = "options"
    /\ job' = [job EXCEPT !.pc = "published",
                          !.message = publishMqttCommand(job.serial, "print",
                                                         commandPayload(job.options))]
    /\ UNCHANGED <<clients, mqttClients, mqttConnectionPromises, calls, ftp, shutdown, cred, factory, lookups, proc>>

NextJob == print_3mf \/ print3mfPublish

SpecJob == InitJob /\ [][NextJob]_vars

(***************************************************************************)
(* The control channel with time: the connect timeout elapses on every     *)
(* dial that neither connected nor failed, and the callbacks of publish    *)
(* and end are delivered.  Nothing obliges the printer to answer.          *)
(***************************************************************************)
LiveTarget == << <<"a">>, <<"c", ":", "t">> >>

Timeouts == \E c \in 1..MaxClients, reported \in BOOLEAN : ConnectTimeout(c, reported)
PublishCallbacks == \E i \in 1..MaxCalls, ok \in BOOLEAN : PublishCallback(i, ok)
EndCallbacks == \E ok \in BOOLEAN : EndCallback(ok)

NextLive ==
    \/ getStatus(LiveTarget[1], LiveTarget[2])
    \/ cancelJob(LiveTarget[1], LiveTarget[2])
    \/ Events
    \/ Timeouts
    \/ disconnectAllMqtt
    \/ EndCallbacks

SpecLive ==
    /\ Init
    /\ [][NextLive]_vars
    /\ WF_vars(Timeouts)
    /\ WF_vars(PublishCallbacks)
    /\ WF_vars(EndCallbacks)

(***************************************************************************)
(* Publishing while reports of the printer arrive.                         *)
(***************************************************************************)
NextPublish ==
    \/ cancelJob(LiveTarget[1], LiveTarget[2])
    \/ Events
    \/ \E c \in 1..MaxClients : OnMessage(c)

SpecPublish == Init /\ [][NextPublish]_vars

(***************************************************************************)
(* The registry: getImplementation on type identifiers in several          *)
(* spellings, between calls of the Bambu backend.                          *)
(***************************************************************************)
TypeIds ==
    { <<"b", "a", "m", "b", "u">>, <<"B", "a", "m", "b", "u">>, <<"B", "A", "M", "B", "U">>,
      <<"d", "u", "e", "t">>, <<"D", "U", "E", "T">>,
      <<"m", "a", "k", "e", "r", "b", "o", "t", "9", "0", "0", "0">>, <<>> }

FactoryTarget == << <<"a">>, <<"c", ":", "t">> >>

NextFactory ==
    \/ \E type \in TypeIds : getImplementation(type)
    \/ getStatus(FactoryTarget[1], FactoryTarget[2])
    \/ \E c \in 1..MaxClients : OnConnect(c)
    \/ \E c \in 1..MaxClients : OnClose(c)

SpecFactory == Init /\ [][NextFactory]_vars

(***************************************************************************)
(* The two commands, start project and cancel, on devices whose serials    *)
(* differ.                                                                 *)
(***************************************************************************)
CommandDevices == { <<<<"a">>, <<"c">>>>, <<<<"a">>, <<"b", "-", "c">>>> }

NextCommand ==
    \/ \E d \in CommandDevices, t \in Tokens : cancelJob(d[1], d[2] \o <<":">> \o t)
    \/ \E d \in CommandDevices, t \in Tokens : print3mf(d[1], d[2], t)
    \/ \E i \in 1..MaxCalls, ok \in BOOLEAN : FtpConnectCallback(i, ok)
    \/ \E i \in 1..MaxCalls, ok \in BOOLEAN : FtpTransferCallback(i, ok, TRUE)
    \/ \E c \in 1..MaxClients : OnConnect(c)
    \/ \E c \in 1..MaxClients, err \in Errors : OnError(c, err)
    \/ \E i \in 1..MaxCalls, ok \in BOOLEAN : PublishCallback(i, ok)

SpecCommand == Init /\ [][NextCommand]_vars

(***************************************************************************)
(* The operations the backend does not support, between operations that    *)
(* use the control channel and the file-transfer session.                  *)
(***************************************************************************)
NextUnsupported ==
    \/ \E apiKey \in ApiKeys : setTemperature(TokenHost, apiKey)
    \/ \E apiKey \in ApiKeys : startJob(TokenHost, apiKey)
    \/ \E apiKey \in GoodApiKeys : getStatus(TokenHost, apiKey)
    \/ \E apiKey \in GoodApiKeys : getFiles(TokenHost, apiKey)
    \/ \E i \in 1..MaxCalls : FtpConnectCallback(i, TRUE)
    \/ \E c \in 1..MaxClients : OnConnect(c)

SpecUnsupported == Init /\ [][NextUnsupported]_vars

(***************************************************************************)
(* One device addressed with two access tokens.                            *)
(***************************************************************************)
AuthHost == <<"a">>
AuthApiKeys == { <<"c", ":", "t">>, <<"c", ":", "u">> }

NextAuth ==
    \/ \E apiKey \in AuthApiKeys : getStatus(AuthHost, apiKey)
    \/ \E apiKey \in AuthApiKeys : cancelJob(AuthHost, apiKey)
    \/ Events

SpecAuth == Init /\ [][NextAuth]_vars

(***************************************************************************)
(* The delegating methods of the server for printer type bambu: what each  *)
(* passes to the backend in the token position.                            *)
(***************************************************************************)
\* args.api_key (the key of the REST backends, '' when not given) and the
\* Bambu serial and access token of the tool call
ToolApiKeys == { <<>>, <<"k">> }
ToolSerial == <<"c">>
ToolToken == <<"t">>

\* const bambuApiKey = `${bambuSerial}:${bambuToken}`
bambuApiKey(bambuSerial, bambuToken) == bambuSerial \o <<":">> \o bambuToken

getPrinterStatus(host, apiKey, bambuSerial, bambuToken) ==
    getStatus(host, bambuApiKey(bambuSerial, bambuToken))

getPrinterFiles(host, apiKey, bambuSerial, bambuToken) ==
    getFiles(host, bambuApiKey(bambuSerial, bambuToken))

\* getFile(host, port, apiKey, bambuSerial, bambuToken, filename)
getPrinterFile(host, apiKey, bambuSerial, bambuToken) == getFile(host, apiKey)

\* uploadFile(host, port, apiKey, bambuSerial, bambuToken, tempFilePath, filename, print)
uploadGcode(host, apiKey, bambuSerial, bambuToken) == uploadFile(host, apiKey)

\* startJob(host, port, apiKey, bambuSerial, bambuToken, gcodeFilename)
startPrint(host, apiKey, bambuSerial, bambuToken) == startJob(host, apiKey)

\* cancelJob(host, port, apiKey, bambuSerial, bambuToken)
cancelPrint(host, apiKey, bambuSerial, bambuToken) == cancelJob(host, apiKey)

NextTool ==
    \/ \E k \in ToolApiKeys : getPrinterStatus(TokenHost, k, ToolSerial, ToolToken)
    \/ \E k \in ToolApiKeys : getPrinterFiles(TokenHost, k, ToolSerial, ToolToken)
    \/ \E k \in ToolApiKeys : getPrinterFile(TokenHost, k, ToolSerial, ToolToken)
    \/ \E k \in ToolApiKeys : uploadGcode(TokenHost, k, ToolSerial, ToolToken)
    \/ \E k \in ToolApiKeys : startPrint(TokenHost, k, ToolSerial, ToolToken)
    \/ \E k \in ToolApiKeys : cancelPrint(TokenHost, k, ToolSerial, ToolToken)
    \/ \E i \in 1..MaxCalls, ok \in BOOLEAN : FtpConnectCallback(i, ok)
    \/ \E i \in 1..MaxCalls, ok, found \in BOOLEAN : FtpTransferCallback(i, ok, found)
    \/ \E c \in 1..MaxClients : OnConnect(c)
    \/ \E c \in 1..MaxClients, err \in Errors : OnError(c, err)

SpecTool == Init /\ [][NextTool]_vars

(***************************************************************************)
(* Process shutdown: the SIGINT handler and PrinterFactory.disconnectAll.  *)
(***************************************************************************)
\* the method PrinterFactory.disconnectAll calls on the Bambu backend
TeardownMethod == "disconnectAll"

\* PrinterFactory.disconnectAll: how its promise settles.  Calling a method the
\* object does not have throws a TypeError, which rejects the async function.
disconnectAll ==
    LET bambuImpl == MapGet(factory.implementations, <<"b", "a", "m", "b", "u">>)
    IN  IF bambuImpl = 0 THEN "resolved"
        ELSE IF TeardownMethod \in Methods(factory.objects[bambuImpl].class) THEN "invoked"
        ELSE "rejected"

\* the SIGINT listener up to the settling of `await this.printerFactory.disconnectAll()`:
\* a rejection leaves the listener's own promise rejected, with no handler;
\* `await this.server.close(); process.exit(0)` follow only a resolution
SIGINT ==
    /\ proc.state = "running"
    /\ proc.sigint = "none"
    /\ disconnectAll = "rejected"
    /\ proc' = [proc EXCEPT !.sigint = "rejected"]
    /\ UNCHANGED <<clients, mqttClients, mqttConnectionPromises, calls, ftp, shutdown, cred,
                   job, factory, lookups>>

\* the runtime's treatment of the unhandled rejection: in mode throw it is
\* raised as an uncaught exception, which ends the process with code 1; in mode
\* warn it is reported and the process goes on
UnhandledRejection ==
    /\ proc.state = "running"
    /\ proc.sigint = "rejected"
    /\ proc' = IF proc.unhandledRejections = "throw"
               THEN [proc EXCEPT !.state = "exited", !.code = 1]
               ELSE [proc EXCEPT !.sigint = "none"]
    /\ UNCHANGED <<clients, mqttClients, mqttConnectionPromises, calls, ftp, shutdown, cred,
                   job, factory, lookups>>

ShutdownTargets == { << <<"a">>, <<"c", ":", "t">> >>, << <<"a">>, <<"b", "-", "c", ":", "t">> >> }

InitShutdown ==
    /\ InitBackend
    /\ cred = NoCred
    /\ job = NoJob
    /\ factory = PrinterFactory
    /\ lookups = <<>>
    /\ proc \in { Running(mode) : mode \in {"throw", "warn"} }

NextShutdown ==
    \/ /\ proc.state = "running"
       /\ \/ \E t \in ShutdownTargets : getStatus(t[1], t[2])
          \/ \E t \in ShutdownTargets : cancelJob(t[1], t[2])
          \/ Events
    \/ SIGINT
    \/ UnhandledRejection

SpecShutdown == InitShutdown /\ [][NextShutdown]_vars /\ WF_vars(UnhandledRejection)

(***************************************************************************)
(* Claims about the control-channel pool.                                  *)
(***************************************************************************)
Device(c) == <<clients[c].host, clients[c].serial>>

\* clients that are trying to establish a connection: the first dial, or a
\* retry after an error or a close
Dialing(c) == clients[c].state = "dialing" /\ ~clients[c].ending

\* C1: calls for the same (host, serial) issued while no handle is established
\* and the first attempt is unsettled cause one mqtt.connect and share its
\* outcome: no two unsettled attempts exist for one (host, serial), and the
\* calls suspended for one (host, serial) all await the same attempt.
C1_NoDuplicateDials ==
    /\ \A c, d \in DOMAIN clients :
          (c # d /\ Device(c) = Device(d) /\ clients[c].promise = "pending")
             => clients[d].promise # "pending"
    /\ \A i, j \in DOMAIN calls :
          (/\ calls[i].pc = "awaitMqtt" /\ calls[j].pc = "awaitMqtt"
           /\ calls[i].host = calls[j].host /\ calls[i].serial = calls[j].serial)
             => calls[i].promise = calls[j].promise

\* C2: at most one client per (host, serial) is trying to establish a
\* connection, in every reachable state.
C2_OneDialingClientPerKey ==
    \A c, d \in DOMAIN clients :
        (c # d /\ Device(c) = Device(d) /\ Dialing(c)) => ~Dialing(d)

\* C3: a call never obtains a handle that had been established and then got a
\* close or an error before the call obtained it.
C3_FreshHandleAfterLoss ==
    [][\A i \in DOMAIN calls' :
          (calls'[i].client # 0 /\ (i \notin DOMAIN calls \/ calls[i].client = 0))
             => ~clients[calls'[i].client].lost]_vars

\* C4: when disconnectAllMqtt finishes, with or without a failed close, every
\* handle it had still to visit is closed and both pools are empty.
C4_ShutdownClosesAll ==
    [][(shutdown.pc \in {"idle", "ending"} /\ shutdown'.pc \in {"done", "failed"})
          => /\ mqttClients' = EmptyMap
             /\ mqttConnectionPromises' = EmptyMap
             /\ \A k \in shutdown.keys \cap DOMAIN mqttClients :
                   clients'[mqttClients[k]].state = "ended"]_vars

\* the step in which the establishment attempt of client c fails
AttemptFails(c) ==
    /\ c \in DOMAIN clients
    /\ clients[c].promise = "pending"
    /\ clients'[c].promise = "rejected"

\* the clients a pool holds that were created for the (host, serial) pair d
EntriesOf(pool, d) == { c \in DOMAIN clients : Device(c) = d /\ \E k \in DOMAIN pool : pool[k] = c }

\* C10: when an establishment attempt fails, every caller awaiting it is
\* rejected with the attempt's error, the key has neither a handle nor a
\* pending record afterwards, and the handles and pending records of every
\* other (host, serial) are unchanged.
C10_FailedAttemptClearsOnlyItsKey ==
    [][\A c \in DOMAIN clients : AttemptFails(c) =>
          /\ \A i \in Awaiting(c) :
                /\ calls'[i].pc = "done"
                /\ calls'[i].client = 0
                /\ calls[i].op # "getStatus"
                      => calls'[i].result = Rejected(clients'[c].reason)
          /\ clients'[c].reason \in Errors
          /\ KeyOf(c) \notin DOMAIN mqttClients'
          /\ KeyOf(c) \notin DOMAIN mqttConnectionPromises'
          /\ \A d \in Devices \ {Device(c)} :
                /\ EntriesOf(mqttClients', d) = EntriesOf(mqttClients, d)
                /\ EntriesOf(mqttConnectionPromises', d) = EntriesOf(mqttConnectionPromises, d)]_vars

(***************************************************************************)
(* Claims about print-from-archive.                                        *)
(***************************************************************************)
\* the published start-project payload
Published == job.pc = "published"
Payload == job.message.body

\* x supplies no slot: it is absent, or holds no number
NoSlots(x) == x.t \notin {"array", "object"} \/ Numbers(x.v) = <<>>

C6_ExplicitDisableHonored ==
    (Published /\ job.use_ams = Bool(FALSE)) => Payload.use_ams = Bool(FALSE)

\* the control-channel clients whose mqtt.connect call i made
DialedBy(i) == { c \in DOMAIN clients : clients[c].by = i }

\* C7: print3mf asks for the control channel and publishes only after its own
\* upload succeeded; a call whose file-transfer connect or upload failed has
\* failed, has dialed no control channel and has published nothing.
C7_PublishOnlyAfterUpload ==
    \A i \in DOMAIN calls : calls[i].op = "print3mf" =>
        /\ (\/ calls[i].pc \in {"awaitMqtt", "publishing"}
            \/ calls[i].promise # 0
            \/ calls[i].client # 0
            \/ DialedBy(i) # {}) => calls[i].uploaded
        /\ (calls[i].pc = "done" /\ ~calls[i].uploaded) =>
              /\ calls[i].result.kind = "rejected"
              /\ calls[i].client = 0
              /\ DialedBy(i) = {}

\* one print3mf published after its upload, another failed in its upload
C7_Witness ==
    /\ \E i \in DOMAIN calls :
          /\ calls[i].op = "print3mf"
          /\ calls[i].result = Resolved("success")
          /\ DialedBy(i) # {}
    /\ \E i \in DOMAIN calls :
          /\ calls[i].op = "print3mf"
          /\ calls[i].result = Rejected("Failed to upload 3MF file via FTP")

(***************************************************************************)
(* Claims about the composite token.                                       *)
(***************************************************************************)
Colons(t) == { n \in 1..Len(t) : t[n] = ":" }

\* two non-empty components joined by a single ':'
TwoNonEmptyParts(t) ==
    /\ Cardinality(Colons(t)) = 1
    /\ t[1] # ":"
    /\ t[Len(t)] # ":"

\* C8: extractBambuCredentials returns (identifier, secret) exactly when the
\* token is two non-empty components joined by a single ':', and fails for
\* every other token.
C8_TwoNonEmptyComponents ==
    cred.done =>
        /\ cred.out.ok <=> TwoNonEmptyParts(cred.token)
        /\ cred.out.ok => cred.token = cred.out.serial \o <<":">> \o cred.out.token

\* a token with the wrong part count
Malformed(t) == Cardinality(Colons(t)) # 1

TokenOps == { "getStatus", "getFiles", "getFile", "uploadFile", "cancelJob" }

\* C9: a call of getStatus, getFiles, getFile, uploadFile or cancelJob with a
\* malformed token is rejected in the step that issues it, which creates no
\* client, touches no file-transfer session and leaves both pools unchanged;
\* the call never holds a handle, awaits an attempt or uploads.
C9_MalformedTokenNoIO ==
    [][\A i \in DOMAIN calls' :
          (calls'[i].op \in TokenOps /\ Malformed(calls'[i].apiKey)) =>
              /\ calls'[i].pc = "done"
              /\ calls'[i].result.kind = "rejected"
              /\ calls'[i].client = 0
              /\ calls'[i].promise = 0
              /\ ~calls'[i].uploaded
              /\ i \notin DOMAIN calls =>
                    UNCHANGED <<clients, mqttClients, mqttConnectionPromises, ftp>>]_vars

\* a call with a malformed token was rejected while a handle was registered,
\* an attempt was pending and a file-transfer session was connected
C9_Witness ==
    /\ \E i \in DOMAIN calls :
          /\ Malformed(calls[i].apiKey)
          /\ calls[i].result.kind = "rejected"
          /\ \E j \in 1..(i - 1) : calls[j].pc # "done" \/ calls[j].client # 0
    /\ DOMAIN mqttClients # {}
    /\ \E d \in DOMAIN ftp : ftp[d].isConnected

(***************************************************************************)
(* Claims about the handles handed to callers.                             *)
(***************************************************************************)
\* call i obtains its handle in this step
Obtains(i) ==
    /\ i \in DOMAIN calls'
    /\ calls'[i].client # 0
    /\ i \notin DOMAIN calls \/ calls[i].client = 0

\* C11: in the step in which a call obtains a handle from getMqttClient, on
\* the immediate path or after awaiting an attempt, the handle is connected
\* and is the one registered under the call's key; a call starts publishing
\* only in such a step, on that handle.
C11_HandedHandleEstablished ==
    [][\A i \in DOMAIN calls' :
          /\ Obtains(i) =>
                LET c == calls'[i].client
                    k == clientKey(calls'[i].host, calls'[i].serial)
                IN  /\ clients'[c].state = "connected"
                    /\ k \in DOMAIN mqttClients'
                    /\ mqttClients'[k] = c
          /\ (calls'[i].pc = "publishing" /\ (i \notin DOMAIN calls \/ calls[i].pc # "publishing"))
                => Obtains(i)]_vars

\* one cancelJob published on the handle of the attempt it started and
\* awaited, another on a handle it found in the pool
C11_Witness ==
    \E i, j \in DOMAIN calls :
        /\ calls[i].op = "cancelJob" /\ calls[j].op = "cancelJob"
        /\ calls[i].client # 0 /\ clients[calls[i].client].by = i
        /\ calls[j].client = calls[i].client /\ j > i
        /\ calls[i].result = Resolved("success")
        /\ calls[j].pc = "publishing"

(***************************************************************************)
(* Claims about the registry and the process shutdown.                     *)
(***************************************************************************)
\* PrinterFactory.disconnectAll, called by the SIGINT listener, has settled
RegistryShutdownSettled == proc.sigint = "rejected"

\* C12: once PrinterFactory.disconnectAll has settled, the teardown of the
\* Bambu backend has been run, every control-channel client and file-transfer
\* session is closed and both pools are empty.
C12_RegistryShutdownTearsDown ==
    RegistryShutdownSettled =>
        /\ shutdown.pc # "idle"
        /\ mqttClients = EmptyMap
        /\ mqttConnectionPromises = EmptyMap
        /\ \A c \in DOMAIN clients : clients[c].state = "ended"
        /\ \A d \in DOMAIN ftp : ~ftp[d].isConnected

CasePairs == { <<"A", "a">>, <<"B", "b">>, <<"D", "d">>, <<"E", "e">>, <<"M", "m">>,
               <<"T", "t">>, <<"U", "u">> }
SameLetter(x, y) == x = y \/ <<x, y>> \in CasePairs \/ <<y, x>> \in CasePairs
SameIgnoringCase(s, t) == Len(s) = Len(t) /\ \A n \in 1..Len(s) : SameLetter(s[n], t[n])

\* the type matches a registered name, ignoring case
IsRegistered(type) == \E n \in DOMAIN Registered : SameIgnoringCase(type, Registered[n][1])

\* C14: two getImplementation calls whose identifiers are equal ignoring case
\* have the same outcome, the identical object when the type is registered;
\* the mapping and the objects stay those of the construction.
C14_IdempotentResolve ==
    /\ \A i, j \in DOMAIN lookups :
          SameIgnoringCase(lookups[i].type, lookups[j].type) =>
              /\ lookups[i].result = lookups[j].result
              /\ IsRegistered(lookups[i].type) => lookups[i].result.kind = "returned"
    /\ factory = PrinterFactory

\* "Bambu" and "bambu" resolved, with a getStatus call of the backend made
C14_Witness ==
    /\ \E i, j \in DOMAIN lookups :
          /\ i < j
          /\ lookups[i].type = <<"B", "a", "m", "b", "u">>
          /\ lookups[j].type = <<"b", "a", "m", "b", "u">>
          /\ lookups[i].result.kind = "returned"
    /\ DOMAIN mqttClients # {}

\* C15: a getImplementation call whose identifier matches no registered type
\* throws the unsupported-type error and changes neither the mapping nor the
\* clients, pools, sessions or calls of the backend.
C15_UnknownTypeFails ==
    [][\A n \in (DOMAIN lookups') \ (DOMAIN lookups) :
          ~IsRegistered(lookups'[n].type) =>
              /\ lookups'[n].result.kind = "thrown"
              /\ lookups'[n].result.value = "Unsupported printer type"
              /\ UNCHANGED <<factory, clients, mqttClients, mqttConnectionPromises, ftp, calls>>]_vars

\* "makerbot9000" was looked up while the backend held a handle
C15_Witness ==
    /\ \E n \in DOMAIN lookups :
          /\ lookups[n].type = <<"m", "a", "k", "e", "r", "b", "o", "t", "9", "0", "0", "0">>
          /\ lookups[n].result.kind = "thrown"
    /\ DOMAIN mqttClients # {}

(***************************************************************************)
(* Claims about the file-transfer channel.                                 *)
(***************************************************************************)
\* the session call i works on
SessionOf(i) == getBambuPrinterForFTP(calls[i].host, calls[i].serial, calls[i].token)

\* the calls whose printerFTP.connect() is in flight on session d
Connecting(d) == { i \in DOMAIN calls : calls[i].pc = "ftpConnect" /\ SessionOf(i) = d }

\* C16: at most one connect() is in flight on a file-transfer session: a call
\* that arrives while a connect is in flight makes no second one.
C16_OneFtpConnectPerSession == \A d \in DOMAIN ftp : Cardinality(Connecting(d)) <= 1

(***************************************************************************)
(* Claims about the results and the settling of the calls.                 *)
(***************************************************************************)
\* C17: a getStatus call that finished without a handle, its connection
\* attempt having failed, is rejected: it does not complete with a value.
C17_GetStatusRejectsOnFailure ==
    \A i \in DOMAIN calls :
        (calls[i].op = "getStatus" /\ calls[i].pc = "done" /\ calls[i].client = 0)
            => calls[i].result.kind = "rejected"

\* C18: every call suspended in getMqttClient eventually resumes, with a
\* handle or with an error.
C18_EveryAcquisitionSettles ==
    \A i \in 1..MaxCalls :
        (i \in DOMAIN calls /\ calls[i].pc = "awaitMqtt")
            ~> (i \in DOMAIN calls /\ calls[i].pc # "awaitMqtt")

\* a report arrives in this step
ReportArrives == \E c \in DOMAIN clients : clients'[c].reported # clients[c].reported

\* C19: a publishing call reports success only when the transport has
\* acknowledged its message and is rejected when the transport reported a
\* publish error; until the callback it has no result; the arrival of a report
\* changes no call.
C19_SuccessOnlyAfterAck ==
    [][/\ \A i \in DOMAIN calls' :
             /\ (calls'[i].op = "cancelJob" /\ calls'[i].result = Resolved("success"))
                   => calls'[i].ack = "puback"
             /\ calls'[i].ack = "error"
                   => calls'[i].result = Rejected("Failed to publish MQTT command")
             /\ calls'[i].pc = "publishing"
                   => (calls'[i].ack = "none" /\ calls'[i].result = NoResult)
       /\ ReportArrives => calls' = calls]_vars

\* one command acknowledged on a client that never received a report, one
\* failed, and one still unacknowledged although a report has arrived
C19_Witness ==
    \E i, j, k \in DOMAIN calls :
        /\ calls[i].result = Resolved("success") /\ calls[i].ack = "puback"
        /\ calls[j].result.kind = "rejected" /\ calls[j].ack = "error"
        /\ calls[k].pc = "publishing" /\ clients[calls[k].client].reported

(***************************************************************************)
(* Claims about the mapping of the start-project payload.                  *)
(***************************************************************************)
\* the slot values supplied: those of the mapping given with the call, else
\* those of the archive
SuppliedSlots ==
    IF ~NoSlots(job.ams_mapping) THEN Numbers(job.ams_mapping.v)
    ELSE IF ~NoSlots(job.parsed) THEN Numbers(job.parsed.v)
    ELSE <<>>

\* the same values, each as often
SameValues(a, b) ==
    /\ Len(a) = Len(b)
    /\ \A v \in SlotValues :
          Cardinality({ n \in DOMAIN a : a[n] = v }) = Cardinality({ n \in DOMAIN b : b[n] = v })

Ascending(a) == \A m, n \in DOMAIN a : m < n => a[m].v <= a[n].v

EmptyValue(x) ==
    \/ x.t = "null"
    \/ x.t \in {"array", "object"} /\ x.v = <<>>
    \/ x.t = "string" /\ x.v = ""

SubscribedOnce(c) == clients'[c].subscribed = <<reportTopic(clients'[c].serial)>>

\* client c gets a connection in this step, its first or a later one
Establishes(c) ==
    /\ c \in DOMAIN clients'
    /\ clients'[c].state = "connected"
    /\ c \notin DOMAIN clients \/ clients[c].state # "connected"

\* C22: after every step, a client that is connected, a client that is
\* registered in the pool and a client a call obtains in the step each have
\* exactly one subscription request for device/<serial>/report on their current
\* connection; a connection is established only by the step that makes the
\* request.
C22_SubscribedOncePerConnection ==
    [][/\ \A c \in DOMAIN clients' :
             /\ clients'[c].state = "connected" => SubscribedOnce(c)
             /\ Establishes(c) => (c \in DOMAIN clients /\ clients[c].subscribed = <<>>)
       /\ \A k \in DOMAIN mqttClients' : SubscribedOnce(mqttClients'[k])
       /\ \A i \in DOMAIN calls' : Obtains(i) => SubscribedOnce(calls'[i].client)]_vars

\* a client that lost its connection has reconnected and is registered again,
\* and a call other than the one that dialed it holds it
C22_Witness ==
    \E c \in DOMAIN clients, i \in DOMAIN calls :
        /\ clients[c].lost
        /\ connected(c)
        /\ KeyOf(c) \in DOMAIN mqttClients /\ mqttClients[KeyOf(c)] = c
        /\ calls[i].client = c
        /\ clients[c].by # i

\* the serial call i addressed: the one passed to print3mf, or the component
\* before the ':' of the composite token
Addressed(i, serial) ==
    IF calls[i].op = "print3mf" THEN calls[i].serial = serial
    ELSE \E t \in Tokens : calls[i].apiKey = serial \o <<":">> \o t

CommandName(i) == IF calls[i].op = "cancelJob" THEN "stop_print" ELSE "project_file"

\* C23: every command published, start project or cancel, goes to
\* device/<serial>/request of the serial the call addressed, and its message has
\* exactly one top-level key, the command type "print", whose value holds
\* sequence_id, the command name in its `command` field and the
\* command-specific fields.
C23_CommandEnvelope ==
    \A i \in DOMAIN calls : HasPublished(i) =>
        /\ \E d \in CommandDevices :
              /\ Addressed(i, d[2])
              /\ Message(i).topic = <<"device/">> \o d[2] \o <<"/request">>
        /\ TopLevelKeys(Message(i)) = {"print"}
        /\ "sequence_id" \in DOMAIN Message(i).body
        /\ Message(i).body.command = Str(CommandName(i))
        /\ calls[i].op = "print3mf" => {"param", "project_name", "use_ams"} \subseteq DOMAIN Message(i).body

\* C23 as stated: the topic is that of the addressed serial and the one
\* top-level key is the command name.
C23_KeyIsCommandName ==
    \A i \in DOMAIN calls : HasPublished(i) =>
        /\ \E d \in CommandDevices :
              /\ Addressed(i, d[2])
              /\ Message(i).topic = <<"device/">> \o d[2] \o <<"/request">>
        /\ TopLevelKeys(Message(i)) = {CommandName(i)}
        /\ "sequence_id" \in DOMAIN Message(i).body

\* a cancel and a start project were published and acknowledged, for
\* different serials
C23_Witness ==
    \E i, j \in DOMAIN calls :
        /\ calls[i].op = "cancelJob" /\ calls[i].ack = "puback"
        /\ calls[j].op = "print3mf" /\ calls[j].ack = "puback"
        /\ calls[i].serial # calls[j].serial

(***************************************************************************)
(* Claims about the unsupported operations.                                *)
(***************************************************************************)
UnsupportedErrors ==
    { "Direct temperature setting via MQTT is not supported.",
      "startJob is not implemented for Bambu printers using MQTT commands yet." }

\* C24: a setTemperature or startJob call is rejected with the
\* unsupported-operation error in the step that issues it, whatever its token,
\* and that step creates no client, leaves the handle pool, the pending-attempt
\* pool and the file-transfer sessions as they were and changes no other call;
\* the call never holds a handle, never publishes and never uploads.
C24_UnsupportedWithoutIO ==
    [][\A i \in DOMAIN calls' : calls'[i].op \in {"setTemperature", "startJob"} =>
          /\ calls'[i].pc = "done"
          /\ calls'[i].result.kind = "rejected"
          /\ calls'[i].result.value \in UnsupportedErrors
          /\ calls'[i].client = 0 /\ calls'[i].promise = 0
          /\ calls'[i].ack = "none" /\ ~calls'[i].uploaded
          /\ i \notin DOMAIN calls =>
                /\ UNCHANGED <<clients, mqttClients, mqttConnectionPromises, ftp>>
                /\ \A j \in DOMAIN calls : calls'[j] = calls[j]]_vars

\* a setTemperature or startJob call with a malformed token was rejected while
\* a handle was registered and a file-transfer session was connected
C24_Witness ==
    /\ \E i \in DOMAIN calls :
          /\ calls[i].op \in {"setTemperature", "startJob"}
          /\ Malformed(calls[i].apiKey)
          /\ calls[i].result.kind = "rejected"
    /\ DOMAIN mqttClients # {}
    /\ \E d \in DOMAIN ftp : ftp[d].isConnected

(***************************************************************************)
(* Claims about the pending-attempt records and the pool entries.          *)
(***************************************************************************)
\* the attempts started that have neither resolved nor rejected
Unsettled == { c \in DOMAIN clients : clients[c].promise = "pending" }

\* C25: a pending-attempt record exists for a key exactly when an attempt for
\* that key is unsettled, and the record is that attempt's.
C25_RecordIffUnsettledAttempt ==
    /\ \A k \in DOMAIN mqttConnectionPromises :
          /\ mqttConnectionPromises[k] \in Unsettled
          /\ KeyOf(mqttConnectionPromises[k]) = k
    /\ \A c \in Unsettled :
          /\ KeyOf(c) \in DOMAIN mqttConnectionPromises
          /\ mqttConnectionPromises[KeyOf(c)] = c

\* the step is the 'close' or the 'error' handler of client c
CloseOrError(c) == OnClose(c) \/ \E err \in Errors : OnError(c, err)

\* C26: a close or error event of a client removes from the handle pool only
\* an entry that is that client, and from the pending-attempt records only the
\* record of that client's own attempt.
C26_EventRemovesOwnEntryOnly ==
    [][\A c \in DOMAIN clients : CloseOrError(c) =>
          /\ \A k \in (DOMAIN mqttClients) \ (DOMAIN mqttClients') : mqttClients[k] = c
          /\ \A k \in (DOMAIN mqttConnectionPromises) \ (DOMAIN mqttConnectionPromises') :
                mqttConnectionPromises[k] = c]_vars

\* C27: the handle a call holds and the attempt a call awaits were created for
\* the call's own (host, serial).
C27_NoSharingAcrossDevices ==
    \A i \in DOMAIN calls :
        /\ calls[i].client # 0 => Device(calls[i].client) = <<calls[i].host, calls[i].serial>>
        /\ calls[i].promise # 0 => Device(calls[i].promise) = <<calls[i].host, calls[i].serial>>

(***************************************************************************)
(* Claims about the clients that outlive a shutdown.                       *)
(***************************************************************************)
\* disconnectAllMqtt returns in this step
ShutdownCompletes == shutdown.pc # "done" /\ shutdown'.pc = "done"

\* client c is put into the handle pool in this step
Registers(c) ==
    \E k \in DOMAIN mqttClients' :
        /\ mqttClients'[k] = c
        /\ k \notin DOMAIN mqttClients \/ mqttClients[k] # c

\* C28: when disconnectAllMqtt returns, every client created so far is closed
\* for good, none is open, dialing or retrying, and the handle pool is empty;
\* a client that was closed for good never registers in the pool again.
C28_NoClientOutlivesShutdown ==
    [][/\ ShutdownCompletes =>
             /\ \A c \in DOMAIN clients' : clients'[c].state = "ended"
             /\ mqttClients' = EmptyMap
       /\ \A c \in DOMAIN clients : Registers(c) => clients[c].state # "ended"]_vars

(***************************************************************************)
(* Claims about the access token of a connection.                          *)
(***************************************************************************)
\* C29: the handle a call holds, and the attempt a call awaits, were dialed
\* with the access token the call carries.
C29_HandleAuthenticatedWithCallersToken ==
    \A i \in DOMAIN calls :
        /\ calls[i].client # 0 => clients[calls[i].client].token = calls[i].token
        /\ calls[i].promise # 0 => clients[calls[i].promise].token = calls[i].token

(***************************************************************************)
(* Claims about the token the server passes to the backend.                *)
(***************************************************************************)
\* C30: every backend call a tool-level operation makes for printer type bambu
\* carries, in the token position, the composite token of the Bambu serial and
\* access token, and is not rejected as a malformed credential.
C30_CompositeTokenPassed ==
    \A i \in DOMAIN calls :
        /\ calls[i].apiKey = bambuApiKey(ToolSerial, ToolToken)
        /\ calls[i].result # Rejected("Invalid Bambu credentials format")

====
